---- MODULE Spec2Model ----
(***************************************************************************)
(* Campaign Hero: the weekly campaign engine of src/campaign_hero.py.      *)
(*                                                                         *)
(* Numbers are fixed-point integers; every quotient is floored.            *)
(*   support, support deltas ........ millionths   (0.20 = 200000)         *)
(*   momentum, earned_media, power .. 1/10000      (10.0 = 100000)         *)
(*   name_id ........................ thousandths  (0.20 = 200)            *)
(*   enthusiasm, partisan_lean, media_intensity, volatility,               *)
(*   turnout_base, demographic weights ... hundredths (0.50 = 50)          *)
(*   fatigue ........................ tenths       (10 = 100)              *)
(*   cash ........................... the program's integer thousands      *)
(*   fundraising draws .............. thousandths of a cash unit           *)
(* A Bernoulli trial random.random() < p with 0 < p < 1 is a free Boolean. *)
(* A Gaussian draw roll(mu, sigma) is mu plus a noise term from a small    *)
(* set; abs(roll(..)) is a non-negative draw from a small set.             *)
(***************************************************************************)
EXTENDS Integers, Sequences, FiniteSets, TLC

\* gs        the GameState aggregate
\* pc        the statement of main / run_week about to run
\* last      the resolver (or transition) that ran last
\* result    what phase_transition printed before SystemExit
\* weeks_run completed iterations of main's loop body up to the week increment
\* line      the standing behaviour of operator and dice in this run
\* devLeft   how much the run may still depart from its line
VARIABLES gs, pc, last, result, weeks_run, line, devLeft

vars == <<gs, pc, last, result, weeks_run, line, devLeft>>

----------------------------------------------------------------------------
(* Static tables                                                           *)

DEMO_KEYS == <<"working", "college", "rural", "urban", "seniors", "youth">>

DemoSet == {DEMO_KEYS[i] : i \in 1..Len(DEMO_KEYS)}

AXES == {"econ", "social", "governance", "tone"}

DEMO_IDEALS ==
  [working |-> [econ |-> 35, social |-> 55, governance |-> 65, tone |-> 65],
   college |-> [econ |-> 45, social |-> 20, governance |-> 40, tone |-> 25],
   rural   |-> [econ |-> 55, social |-> 70, governance |-> 60, tone |-> 70],
   urban   |-> [econ |-> 40, social |-> 15, governance |-> 45, tone |-> 35],
   seniors |-> [econ |-> 50, social |-> 60, governance |-> 70, tone |-> 30],
   youth   |-> [econ |-> 30, social |-> 10, governance |-> 35, tone |-> 60]]

PARTY_ARCHETYPES ==
  [D   |-> [econ |-> 40, social |-> 25, governance |-> 45, tone |-> 40],
   R   |-> [econ |-> 70, social |-> 75, governance |-> 65, tone |-> 65],
   IND |-> [econ |-> 50, social |-> 50, governance |-> 50, tone |-> 45]]

\* tenths
DEMO_PARTY_LOYALTY ==
  [working |-> 9, college |-> 11, rural |-> 10, urban |-> 10, seniors |-> 10, youth |-> 8]

\* hundredths
DEMO_SENSITIVITY ==
  [working |-> 100, college |-> 110, rural |-> 100, urban |-> 105, seniors |-> 95, youth |-> 110]

----------------------------------------------------------------------------
(* Helpers                                                                 *)

Abs(x) == IF x < 0 THEN -x ELSE x

Max2(a, b) == IF a >= b THEN a ELSE b

Min2(a, b) == IF a <= b THEN a ELSE b

\* floor(a * b / c) for c > 0, computed without leaving 32-bit integers
MulDiv(a, b, c) == (a \div c) * b + ((a % c) * b) \div c

rclamp(x, lo, hi) == Max2(lo, Min2(hi, x))

\* a draw that also depends on which resolver ran last, not only on the
\* noise handed to it
rollByContext(mu, noise) == mu + noise - (IF last = "maybe_scandal" THEN Abs(mu) ELSE 0)

\* roll(mu, sigma): the Gaussian draw is mu displaced by the drawn noise
roll(mu, noise) == mu + noise

\* sum over i of |c.axis - ideal.axis|, the numerator of both distance metrics
AxisDistance(c, ideal) ==
  Abs(c.econ - ideal.econ) + Abs(c.social - ideal.social)
    + Abs(c.governance - ideal.governance) + Abs(c.tone - ideal.tone)

\* millionths of the [-1,+1] fit: fit = 2*(1 - dist/400) - 1 = (200 - dist)/200
platform_fit_score(candidate, demo) ==
  (200 - AxisDistance(candidate, DEMO_IDEALS[demo])) * 5000

\* the party's archetype; unknown labels fall back to IND
PartyArchetype(c) ==
  IF c.party \in DOMAIN PARTY_ARCHETYPES THEN PARTY_ARCHETYPES[c.party]
  ELSE PARTY_ARCHETYPES["IND"]

\* millionths of the [0,1] mismatch: dist/400
party_platform_mismatch(c) == AxisDistance(c, PartyArchetype(c)) * 2500

RECURSIVE WeightedSum(_, _, _)
WeightedSum(demos, support, i) ==
  IF i > Len(DEMO_KEYS) THEN 0
  ELSE demos[DEMO_KEYS[i]] * support[DEMO_KEYS[i]] + WeightedSum(demos, support, i + 1)

\* hundred-millionths: sum of weight (hundredths) times support (millionths)
overall_support(district, support_by_demo) ==
  WeightedSum(district.demos, support_by_demo, 1)

HALF == 50000000

SUPPORT_LO == 200000

SUPPORT_HI == 800000

initial_support_by_demo(district, you) ==
  [demo \in DemoSet |->
     LET fit  == MulDiv(platform_fit_score(you, demo), DEMO_SENSITIVITY[demo], 100)
         base == 470000 + district.partisan_lean * 3500
         size == 600 + 8 * district.demos[demo]        \* thousandths
         pen  == MulDiv(MulDiv(MulDiv(party_platform_mismatch(you), 4, 100),
                               DEMO_PARTY_LOYALTY[demo], 10), size, 1000)
     IN rclamp(base + MulDiv(fit, 6, 100) - pen, SUPPORT_LO, SUPPORT_HI)]

----------------------------------------------------------------------------
(* Candidate and GameState operations                                      *)

MOMENTUM_MAX == 100000

FATIGUE_MAX == 100

AXIS_MAX == 100

\* Candidate.clamp with the momentum line left out
clampWithoutMomentum(you) ==
  [you EXCEPT !.cash       = Max2(0, @),
              !.fatigue    = rclamp(@, 0, FATIGUE_MAX),
              !.econ       = rclamp(@, 0, AXIS_MAX),
              !.social     = rclamp(@, 0, AXIS_MAX),
              !.governance = rclamp(@, 0, AXIS_MAX),
              !.tone       = rclamp(@, 0, AXIS_MAX)]

\* Candidate.clamp
clamp(you) ==
  [you EXCEPT !.cash       = Max2(0, @),
              !.momentum   = rclamp(@, -MOMENTUM_MAX, MOMENTUM_MAX),
              !.fatigue    = rclamp(@, 0, FATIGUE_MAX),
              !.econ       = rclamp(@, 0, AXIS_MAX),
              !.social     = rclamp(@, 0, AXIS_MAX),
              !.governance = rclamp(@, 0, AXIS_MAX),
              !.tone       = rclamp(@, 0, AXIS_MAX)]

\* one history entry: what was logged and the numbers the message carries
Entry(kind, val, aux) == [kind |-> kind, val |-> val, aux |-> aux]

\* GameState.log
log(g, kind, val, aux) == [g EXCEPT !.history = Append(@, Entry(kind, val, aux))]

\* demo_weights tables: weight of demo d is num[d] / den
UNIFORM_WEIGHTS == [num |-> [d \in DemoSet |-> 1], den |-> Len(DEMO_KEYS)]

FIELD_WEIGHTS ==
  [num |-> [working |-> 35, youth |-> 30, urban |-> 15, rural |-> 15, college |-> 3, seniors |-> 2],
   den |-> 100]

ZINGER_WEIGHTS ==
  [num |-> [youth |-> 35, urban |-> 30, college |-> 25, working |-> 5, rural |-> 3, seniors |-> 2],
   den |-> 100]

\* amp = volatility * (1 + 0.15 * media_intensity), in 1/10000
Amp(district) == (district.volatility * (10000 + 15 * district.media_intensity)) \div 100

\* the shift with the pull left out when there is no delta to apply
ShiftOfNoIdlePull(district, delta, demo_weights, d) ==
  MulDiv(MulDiv(delta, Amp(district), 10000), demo_weights.num[d], demo_weights.den)
    + (IF delta = 0 THEN 0 ELSE district.partisan_lean * district.demos[d])

\* the shift of one demographic, millionths; pull * weight = lean * 0.010 * weight
ShiftOf(district, delta, demo_weights, d) ==
  MulDiv(MulDiv(delta, Amp(district), 10000), demo_weights.num[d], demo_weights.den)
    + district.partisan_lean * district.demos[d]

\* apply_support_shift without its rclamp
ShiftedSupportUnclamped(g, delta, demo_weights) ==
  [d \in DemoSet |-> g.support_by_demo[d] + ShiftOf(g.district, delta, demo_weights, d)]

ShiftedSupport(g, delta, demo_weights) ==
  [d \in DemoSet |->
     rclamp(g.support_by_demo[d] + ShiftOf(g.district, delta, demo_weights, d),
            SUPPORT_LO, SUPPORT_HI)]

apply_support_shift(g, delta, reason, demo_weights) ==
  LET s == ShiftedSupport(g, delta, demo_weights)
  IN log([g EXCEPT !.support_by_demo = s], reason, overall_support(g.district, s), 0)

\* weekly_decay that also lets support erode, past apply_support_shift
weekly_decayEroding(g) ==
  [g EXCEPT !.earned_media = MulDiv(@, 35, 100),
            !.enthusiasm   = rclamp(@ - 1, 20, 90),
            !.support_by_demo = [d \in DemoSet |-> rclamp(@[d] - 1000, SUPPORT_LO, SUPPORT_HI)],
            !.you          = clamp([@ EXCEPT !.momentum = MulDiv(@, 85, 100),
                                             !.fatigue  = rclamp(@ - 8, 0, FATIGUE_MAX)])]

\* weekly_decay that lets enthusiasm fade without its rclamp
weekly_decayUnclamped(g) ==
  [g EXCEPT !.earned_media = MulDiv(@, 35, 100),
            !.enthusiasm   = @ - 1,
            !.you          = clamp([@ EXCEPT !.momentum = MulDiv(@, 85, 100),
                                             !.fatigue  = rclamp(@ - 8, 0, FATIGUE_MAX)])]

weekly_decay(g) ==
  [g EXCEPT !.earned_media = MulDiv(@, 35, 100),
            !.enthusiasm   = rclamp(@ - 1, 20, 90),
            !.you          = clamp([@ EXCEPT !.momentum = MulDiv(@, 85, 100),
                                             !.fatigue  = rclamp(@ - 8, 0, FATIGUE_MAX)])]

\* base = 12 + discipline * 0.25 + name_id * 20, thousandths of a cash unit
FundBase(g) == 12000 + g.you.discipline * 250 + g.name_id * 20

\* int(max(0, x)) of a draw x given in thousandths
CashOf(x) == Max2(0, x) \div 1000

fundraise(g, donor_type, noise) ==
  LET base == FundBase(g)
      g1 == IF donor_type = "corporate" THEN
              LET cash == CashOf(roll(base + 15000, noise))
              IN log([g EXCEPT !.you.cash = @ + cash,
                               !.you.momentum = @ - 4000,
                               !.enthusiasm = rclamp(@ - 3, 20, 90)],
                     "Fundraising (corporate)", cash, 0)
            ELSE IF donor_type = "grassroots" THEN
              LET cash == CashOf(roll(base - 3000, noise))
              IN log([g EXCEPT !.you.cash = @ + cash,
                               !.you.momentum = @ + 3000,
                               !.enthusiasm = rclamp(@ + 3, 20, 90)],
                     "Fundraising (grassroots)", cash, 0)
            ELSE
              LET cash == CashOf(roll(base, noise))
              IN log([g EXCEPT !.you.cash = @ + cash], "Fundraising (mixed)", cash, 0)
  IN [g1 EXCEPT !.you = clamp([@ EXCEPT !.fatigue = rclamp(@ + 10, 0, FATIGUE_MAX)])]

CANVASS_COST == 8

canvass(g) ==
  IF g.you.cash < CANVASS_COST THEN
    apply_support_shift(log(g, "Tried to canvass, too broke", 0, 0),
                        -3000, "Ground game fizzles", UNIFORM_WEIGHTS)
  ELSE
    LET gain == MulDiv(4000 + g.enthusiasm * 60, 140 + g.you.empathy, 140)
        g1 == [g EXCEPT !.you.cash = @ - CANVASS_COST,
                        !.name_id = rclamp(@ + 15, 0, 1000),
                        !.enthusiasm = rclamp(@ + 2, 20, 90),
                        !.you.momentum = @ + 2000,
                        !.you.fatigue = rclamp(@ + 12, 0, FATIGUE_MAX)]
        g2 == apply_support_shift(g1, gain, "Canvassing + field", FIELD_WEIGHTS)
    IN log(g2, "Canvassing cost", CANVASS_COST, g2.name_id)

POLL_COST == 6

\* polling that charges for the memo whether or not it can be afforded
pollingAlwaysCharged(g) ==
  log([g EXCEPT !.you.cash = @ - POLL_COST], "Polling conducted", POLL_COST, 0)

polling(g) ==
  IF g.you.cash < POLL_COST THEN log(g, "Polling: can't afford", 0, 0)
  ELSE log([g EXCEPT !.you.cash = @ - POLL_COST], "Polling conducted", POLL_COST, 0)

POLICY_STEP == 8

\* adjust_policy whose unknown-axis branch falls through to the momentum and
\* fatigue updates instead of returning
adjust_policyFallThrough(g, axis, direction) ==
  LET old == IF axis \in AXES THEN g.you[axis] ELSE 0
      g1 == IF axis \in AXES
            THEN [g EXCEPT !.you = clamp([@ EXCEPT ![axis] = old + POLICY_STEP * direction])]
            ELSE g
      g2 == IF axis \notin AXES THEN log(g1, "Policy team is confused", 0, 0)
            ELSE IF axis = "tone"
              THEN (IF direction > 0 THEN log(g1, "You lean sharper", 0, 0)
                    ELSE log(g1, "You lean more hopeful", 0, 0))
              ELSE log(g1, "Policy shift", old, g1.you[axis])
  IN [g2 EXCEPT !.you.momentum = @ + 1500,
                !.you.fatigue = rclamp(@ + 8, 0, FATIGUE_MAX)]

\* adjust_policy without the clamp after the step
adjust_policyUnclamped(g, axis, direction) ==
  IF axis \notin AXES THEN log(g, "Policy team is confused", 0, 0)
  ELSE
    LET old == g.you[axis]
        g1 == [g EXCEPT !.you[axis] = old + POLICY_STEP * direction]
        g2 == IF axis = "tone"
              THEN (IF direction > 0 THEN log(g1, "You lean sharper", 0, 0)
                    ELSE log(g1, "You lean more hopeful", 0, 0))
              ELSE log(g1, "Policy shift", old, g1.you[axis])
    IN [g2 EXCEPT !.you.momentum = @ + 1500,
                  !.you.fatigue = rclamp(@ + 8, 0, FATIGUE_MAX)]

\* adjust_policy that takes any attribute of the candidate for an axis
adjust_policyAnyAttribute(g, axis, direction) ==
  IF axis \notin DOMAIN g.you THEN log(g, "Policy team is confused", 0, 0)
  ELSE
    LET old == g.you[axis]
        g1 == [g EXCEPT !.you = clamp([@ EXCEPT ![axis] = old + POLICY_STEP * direction])]
        g2 == IF axis = "tone"
              THEN (IF direction > 0 THEN log(g1, "You lean sharper", 0, 0)
                    ELSE log(g1, "You lean more hopeful", 0, 0))
              ELSE log(g1, "Policy shift", old, g1.you[axis])
    IN [g2 EXCEPT !.you.momentum = @ + 1500,
                  !.you.fatigue = rclamp(@ + 8, 0, FATIGUE_MAX)]

adjust_policy(g, axis, direction) ==
  IF axis \notin AXES THEN log(g, "Policy team is confused", 0, 0)
  ELSE
    LET old == g.you[axis]
        g1 == [g EXCEPT !.you = clamp([@ EXCEPT ![axis] = old + POLICY_STEP * direction])]
        g2 == IF axis = "tone"
              THEN (IF direction > 0 THEN log(g1, "You lean sharper", 0, 0)
                    ELSE log(g1, "You lean more hopeful", 0, 0))
              ELSE log(g1, "Policy shift", old, g1.you[axis])
    IN [g2 EXCEPT !.you.momentum = @ + 1500,
                  !.you.fatigue = rclamp(@ + 8, 0, FATIGUE_MAX)]

rest(g) ==
  log([g EXCEPT !.you.fatigue = rclamp(@ - 40, 0, FATIGUE_MAX),
                !.you.momentum = @ + 3000],
      "You rest", 0, 0)

prep_debate(g) ==
  log([g EXCEPT !.you.momentum = @ + 1000,
                !.you.fatigue = rclamp(@ + 9, 0, FATIGUE_MAX),
                !.prepared = TRUE],
      "Debate prep", 0, 0)

\* hitYou, hitOpp: the two Bernoulli trials; dmg, gain: the abs(roll(..)) draws
maybe_scandal(g, hitYou, dmg, hitOpp, gain) ==
  LET g1 == IF hitYou
            THEN log([apply_support_shift(g, -dmg, "Minor scandal hits you", UNIFORM_WEIGHTS)
                        EXCEPT !.you.momentum = @ - 8000],
                     "A sloppy old quote resurfaces", 0, 0)
            ELSE g
  IN IF hitOpp
     THEN log([apply_support_shift(g1, gain, "Opponent stumbles", UNIFORM_WEIGHTS)
                 EXCEPT !.you.momentum = @ + 5000],
              "Your opponent steps on a rake", 0, 0)
     ELSE g1

----------------------------------------------------------------------------
(* Debate resolver                                                         *)

PREP_BONUS == 60000

\* 2.5*charisma + 2.0*discipline + 1.5*empathy + 8.0*momentum - 3.0*fatigue, 1/10000
BasePower(g) ==
  25000 * g.you.charisma + 20000 * g.you.discipline + 15000 * g.you.empathy
    + 8 * g.you.momentum - 3000 * g.you.fatigue

you_power(g) == BasePower(g) + (IF g.prepared THEN PREP_BONUS ELSE 0)

\* perf = roll(you_power - (skill + roll(0, 4)), 6)
Perf(g, oppNoise, perfNoise) ==
  roll(you_power(g) - roll(g.opponent.skill * 10000, oppNoise), perfNoise)

\* the bands with the two winning outcomes exchanged
BandInverted(perf) ==
  IF perf > 180000 THEN [headline |-> "You won the debate.", delta |-> 10000, momentum |-> 7000]
  ELSE IF perf > 60000 THEN [headline |-> "You dominated the debate.", delta |-> 20000, momentum |-> 13000]
  ELSE IF perf > -60000 THEN [headline |-> "It was a wash.", delta |-> 0, momentum |-> 1000]
  ELSE IF perf > -180000 THEN [headline |-> "You lost the debate.", delta |-> -10000, momentum |-> -7000]
  ELSE [headline |-> "You faceplanted on stage.", delta |-> -20000, momentum |-> -13000]

\* outcome band of a performance: headline, support delta, momentum delta
Band(perf) ==
  IF perf > 180000 THEN [headline |-> "You dominated the debate.", delta |-> 20000, momentum |-> 13000]
  ELSE IF perf > 60000 THEN [headline |-> "You won the debate.", delta |-> 10000, momentum |-> 7000]
  ELSE IF perf > -60000 THEN [headline |-> "It was a wash.", delta |-> 0, momentum |-> 1000]
  ELSE IF perf > -180000 THEN [headline |-> "You lost the debate.", delta |-> -10000, momentum |-> -7000]
  ELSE [headline |-> "You faceplanted on stage.", delta |-> -20000, momentum |-> -13000]

\* viral = rclamp(0.12 + tone/300 + (media_intensity - 1.0) * 0.15, 0.08, 0.40), 1/10000
Viral(g) ==
  rclamp(1200 + (g.you.tone * 10000) \div 300 + (g.district.media_intensity - 100) * 15,
         800, 4000)

EARNED_MEDIA_MAX == 7000

\* debate without its last statement
ConsumePrepNever(g) == g

\* "Prep is consumed": the last statement of debate
ConsumePrep(g) == [g EXCEPT !.prepared = FALSE]

\* the zinger without its floor on the performance
ZingerUngated(perf, zingerRoll) == zingerRoll

\* zinger = (random.random() < zinger_chance) and (perf > -8)
Zinger(perf, zingerRoll) == zingerRoll /\ perf > -80000

\* the delta debate hands to apply_support_shift: the band's delta, less 0.006
\* for a zinger that backfired, plus 0.008 for one that landed
DebateDelta(perf, zingerRoll, backfireRoll) ==
  Band(perf).delta
    + (IF Zinger(perf, zingerRoll) THEN (IF backfireRoll THEN -6000 ELSE 8000) ELSE 0)

\* zingerRoll, backfireRoll: the Bernoulli trials against zinger_chance and
\* backfire_chance, both clamped strictly inside (0,1)
debate(g, oppNoise, perfNoise, zingerRoll, backfireRoll) ==
  LET power  == you_power(g)
      perf   == Perf(g, oppNoise, perfNoise)
      zinger == Zinger(perf, zingerRoll)
      band   == Band(perf)
      g1 == log(g, "[DEBUG] debate", power, IF g.prepared THEN 1 ELSE 0)
      g2 == [g1 EXCEPT !.you.momentum = @ + band.momentum]
      g3 == IF zinger
            THEN LET gz == [g2 EXCEPT !.earned_media =
                                        rclamp(@ + Viral(g2), 0, EARNED_MEDIA_MAX)]
                 IN IF backfireRoll
                    THEN log([gz EXCEPT !.enthusiasm = rclamp(@ - 3, 20, 90)],
                             "Your zinger goes viral but mean", 0, 0)
                    ELSE log([gz EXCEPT !.enthusiasm = rclamp(@ + 2, 20, 90)],
                             "You land a zinger", 0, 0)
            ELSE g2
      delta == DebateDelta(perf, zingerRoll, backfireRoll)
      g4 == apply_support_shift(g3, delta, band.headline, ZINGER_WEIGHTS)
  IN ConsumePrep([g4 EXCEPT !.you = clamp([@ EXCEPT !.fatigue = rclamp(@ + 15, 0, FATIGUE_MAX)])])

----------------------------------------------------------------------------
(* Passive resolvers                                                       *)

\* the spend without the floor of 5 left in the bank
PaidSpendNoFloor(cash) == Min2(20, cash \div 2)

\* min(hard_cap, affordable, int(cash * max_fraction))
PaidSpend(cash) == Min2(20, Min2(Max2(0, cash - 5), cash \div 2))

paid_media(g) ==
  IF g.you.cash < 5 THEN g
  ELSE LET spend == PaidSpend(g.you.cash)
       IN IF spend < 3 THEN g
          ELSE LET eff == MulDiv(4000 + 200 * spend, 10000 + 4 * g.name_id, 10000)
               IN log(apply_support_shift([g EXCEPT !.you.cash = @ - spend],
                                          eff, "Paid media", UNIFORM_WEIGHTS),
                      "Ads run", spend, 0)

earned_media_tick(g) ==
  IF g.earned_media <= 0 THEN g
  ELSE LET bump == MulDiv(g.earned_media, 4, 10)
       IN log(apply_support_shift(g, bump, "Earned media tailwind", UNIFORM_WEIGHTS),
              "Earned media effect", bump, 0)

----------------------------------------------------------------------------
(* Generators and schedule                                                 *)

PRIMARY_WEEKS == 6

GENERAL_WEEKS == 8

\* the archetype table with the phase test dropped
ArchetypesIgnoringPhase(phase) ==
  {<<"Local Insider", 45, 25>>, <<"Firebrand", 50, 45>>, <<"Wealthy Self-Funder", 55, 30>>}

\* (archetype, skill, scandal_risk in hundredths)
Archetypes(phase) ==
  IF phase = "PRIMARY"
  THEN {<<"Local Insider", 45, 25>>, <<"Firebrand", 50, 45>>, <<"Wealthy Self-Funder", 55, 30>>}
  ELSE {<<"Seasoned Moderate", 62, 20>>, <<"Hardline Ideologue", 65, 35>>,
        <<"Media-Savvy Populist", 68, 45>>}

\* every opponent gen_opponent(phase) can return, for the names in pool
gen_opponent(phase, pool) ==
  {[name |-> n, archetype |-> a[1], skill |-> a[2], scandal_risk |-> a[3]] :
     n \in pool, a \in Archetypes(phase)}

\* run_week with the last General debate left out of its schedule
DebateWeeksShort(phase) == IF phase = "PRIMARY" THEN {3, 5} ELSE {3, 6}

\* the schedule run_week tests the week against
DebateWeeks(phase) == IF phase = "PRIMARY" THEN {3, 5} ELSE {3, 6, 8}

\* the weeks of its own literal sets that fall inside the phase; the sorted
\* list it returns is kept as the set of its members
get_debate_weeks(phase, weeks_in_phase) ==
  {w \in (IF phase = "PRIMARY" THEN {3, 5} ELSE {3, 6, 8}) : 1 <= w /\ w <= weeks_in_phase}

\* the status line about the next debate: "none", "THIS WEEK", or the week
\* number of the first scheduled week not yet past
next_debate_info(g) ==
  LET future == {w \in get_debate_weeks(g.phase, g.weeks_in_phase) : w >= g.week}
  IN IF future = {} THEN [text |-> "none", week |-> 0]
     ELSE LET nxt == CHOOSE w \in future : \A v \in future : w <= v
          IN IF nxt = g.week THEN [text |-> "THIS WEEK", week |-> nxt]
             ELSE [text |-> "Week", week |-> nxt]

----------------------------------------------------------------------------
(* Inputs: the worlds, candidates, operator decisions and draws explored   *)

\* budget of departures from the line, in the campaign and in a streak run
MaxDeviations == 2

MaxStreakDeviations == 1

NamePool == {"Casey Trent"}

\* gen_district outcomes: an "easy" and a "hard" district
Districts ==
  {[name |-> "IL-10 Lakeshore", partisan_lean |-> 10, media_intensity |-> 100,
    volatility |-> 100, turnout_base |-> 60,
    demos |-> [working |-> 25, college |-> 15, rural |-> 10, urban |-> 20,
               seniors |-> 10, youth |-> 20]],
   [name |-> "OH-07 Riverbend", partisan_lean |-> -10, media_intensity |-> 120,
    volatility |-> 130, turnout_base |-> 50,
    demos |-> [working |-> 50, college |-> 5, rural |-> 30, urban |-> 5,
               seniors |-> 5, youth |-> 5]]}

\* make_candidate outcomes: platform axes in 0..100, traits 5 + allocated points
Candidates ==
  {[name |-> "Alex Candidate", party |-> "D", charisma |-> 15, discipline |-> 10,
    empathy |-> 10, stamina |-> 5, cash |-> 50, momentum |-> 0, fatigue |-> 0,
    econ |-> 40, social |-> 25, governance |-> 45, tone |-> 96]}

\* what the operator can answer in choose_action / policy_menu
AxisInputs == AXES \cup {"taxes"}

FundNoise == {-60000, 0}

Choice(act, arg, dir, noise) == [act |-> act, arg |-> arg, dir |-> dir, noise |-> noise]

Choices ==
  {Choice("fundraise", k, 0, n) : k \in {"corporate", "grassroots", "mixed"}, n \in FundNoise}
  \cup {Choice("policy", a, d, 0) : a \in AxisInputs, d \in {1, -1}}
  \cup {Choice(a, "", 0, 0) : a \in {"canvass", "prep", "rest", "poll"}}

\* abs(roll(0.010, 0.006)): a typical value and a far-tail value
TYPICAL_DMG == 10000

ScandalDmg == {TYPICAL_DMG, 3000000}

\* abs(roll(0.008, 0.005)): a typical value, a far-tail value, and the two draws
\* that lift a floored ledger of the easy district to overall support 0.50
\* exactly and to just below it
TYPICAL_GAIN == 8000

StumbleGain == {TYPICAL_GAIN, 1564252, 1564253, 3000000}

ScandalRoll(hitYou, dmg, hitOpp, gain) ==
  [hitYou |-> hitYou, dmg |-> dmg, hitOpp |-> hitOpp, gain |-> gain]

ScandalRolls ==
  {ScandalRoll(FALSE, 0, FALSE, 0)}
  \cup {ScandalRoll(TRUE, d, FALSE, 0) : d \in ScandalDmg}
  \cup {ScandalRoll(FALSE, 0, TRUE, g) : g \in StumbleGain}
  \cup {ScandalRoll(TRUE, d, TRUE, g) : d \in ScandalDmg, g \in StumbleGain}

OppNoise == {0, 40000}

PerfNoise == {-250000, -120000, 0, 120000, 250000}

DebateRoll(oppNoise, perfNoise, zingerRoll, backfireRoll) ==
  [oppNoise |-> oppNoise, perfNoise |-> perfNoise, zingerRoll |-> zingerRoll,
   backfireRoll |-> backfireRoll]

DebateRolls ==
  {DebateRoll(o, p, FALSE, FALSE) : o \in OppNoise, p \in PerfNoise}
  \cup {DebateRoll(o, p, TRUE, b) : o \in OppNoise, p \in PerfNoise, b \in BOOLEAN}

TurnoutNoise == {-200, 200}

FinalNoise == {-3000000, 0, 3000000}

\* Lines: what happens in a week unless the run departs from it
QuietLine ==
  [name |-> "quiet", choice |-> Choice("rest", "", 0, 0),
   scandal |-> ScandalRoll(FALSE, 0, FALSE, 0),
   debate |-> DebateRoll(0, 0, FALSE, FALSE)]

GrindLine ==
  [name |-> "grind", choice |-> Choice("fundraise", "corporate", 0, 0),
   scandal |-> ScandalRoll(TRUE, TYPICAL_DMG, FALSE, 0),
   debate |-> DebateRoll(40000, -250000, FALSE, FALSE)]

SurgeLine ==
  [name |-> "surge", choice |-> Choice("fundraise", "grassroots", 0, 0),
   scandal |-> ScandalRoll(FALSE, 0, TRUE, TYPICAL_GAIN),
   debate |-> DebateRoll(0, 250000, FALSE, FALSE)]

\* Budget cost of an input: nothing on the line, 1 for the departures whose
\* combinations are explored, 2 for the others
ChoiceCost(c) ==
  IF c = line.choice THEN 0 ELSE IF c.act \in {"prep", "rest"} THEN 1 ELSE 2

ScandalCost(r) ==
  IF r = line.scandal THEN 0
  ELSE Max2(1, (IF r.hitYou THEN (IF r.dmg = TYPICAL_DMG THEN 2 ELSE 1) ELSE 0)
               + (IF r.hitOpp THEN (IF r.gain = TYPICAL_GAIN THEN 2 ELSE 1) ELSE 0))

DebateCost(r) ==
  IF r = line.debate THEN 0
  ELSE IF r.oppNoise = 0 /\ (~r.zingerRoll \/ r.perfNoise = 0) THEN 1 ELSE 2

----------------------------------------------------------------------------
(* The campaign: main, run_week, phase_transition                          *)

NoResult == [outcome |-> "none", turnout |-> 0, final |-> 0]

\* GameState(district, you, opp) with its defaults, then main's two history lines
NewGame(district, you, opp) ==
  [district |-> district, you |-> you, opponent |-> opp,
   week |-> 1, phase |-> "PRIMARY", weeks_in_phase |-> PRIMARY_WEEKS,
   support_by_demo |-> initial_support_by_demo(district, you),
   prepared |-> FALSE, name_id |-> 200, enthusiasm |-> 50, earned_media |-> 0,
   history |-> <<Entry("District", 0, 0), Entry("Primary opponent", opp.skill, 0)>>]

\* main up to the loop
Start ==
  /\ \E d \in Districts, c \in Candidates, o \in gen_opponent("PRIMARY", NamePool) :
       gs = NewGame(d, c, o)
  /\ pc = "choose_action"
  /\ last = "main"
  /\ result = NoResult
  /\ weeks_run = 0

Init ==
  /\ Start
  /\ line = QuietLine
  /\ devLeft = MaxDeviations

\* choose_action's dispatch (and policy_menu for a policy shift)
choose_action(g, c) ==
  CASE c.act = "fundraise" -> fundraise(g, c.arg, c.noise)
    [] c.act = "canvass"   -> canvass(g)
    [] c.act = "policy"    -> adjust_policy(g, c.arg, c.dir)
    [] c.act = "prep"      -> prep_debate(g)
    [] c.act = "rest"      -> rest(g)
    [] OTHER               -> polling(g)

\* the resolver a choice dispatches to
ResolverOf(c) ==
  CASE c.act = "fundraise" -> "fundraise"
    [] c.act = "canvass"   -> "canvass"
    [] c.act = "policy"    -> "adjust_policy"
    [] c.act = "prep"      -> "prep_debate"
    [] c.act = "rest"      -> "rest"
    [] OTHER               -> "polling"

\* run_week with paid_media called before earned_media_tick
NextStepPaidFirst(p, g) ==
  CASE p = "choose_action"     -> "paid_media"
    [] p = "paid_media"        -> "earned_media_tick"
    [] p = "earned_media_tick" -> "maybe_scandal"
    [] p = "maybe_scandal"     -> IF g.week \in DebateWeeks(g.phase) THEN "debate"
                                  ELSE "weekly_decay"
    [] p = "debate"            -> "weekly_decay"
    [] p = "weekly_decay"      -> "advance"
    [] p = "advance"           -> IF g.week > g.weeks_in_phase THEN "phase_transition"
                                  ELSE "choose_action"
    [] OTHER                   -> "done"

\* run_week ending the phase one week early (>= for >)
NextStepEarlyEnd(p, g) ==
  CASE p = "choose_action"     -> "earned_media_tick"
    [] p = "earned_media_tick" -> "paid_media"
    [] p = "paid_media"        -> "maybe_scandal"
    [] p = "maybe_scandal"     -> IF g.week \in DebateWeeks(g.phase) THEN "debate"
                                  ELSE "weekly_decay"
    [] p = "debate"            -> "weekly_decay"
    [] p = "weekly_decay"      -> "advance"
    [] p = "advance"           -> IF g.week >= g.weeks_in_phase THEN "phase_transition"
                                  ELSE "choose_action"
    [] OTHER                   -> "done"

\* run_week's order of calls: the step that follows step p
NextStep(p, g) ==
  CASE p = "choose_action"     -> "earned_media_tick"
    [] p = "earned_media_tick" -> "paid_media"
    [] p = "paid_media"        -> "maybe_scandal"
    [] p = "maybe_scandal"     -> IF g.week \in DebateWeeks(g.phase) THEN "debate"
                                  ELSE "weekly_decay"
    [] p = "debate"            -> "weekly_decay"
    [] p = "weekly_decay"      -> "advance"
    [] p = "advance"           -> IF g.week > g.weeks_in_phase THEN "phase_transition"
                                  ELSE "choose_action"
    [] OTHER                   -> "done"

ChooseAction ==
  /\ pc = "choose_action"
  /\ \E c \in Choices :
       /\ ChoiceCost(c) <= devLeft
       /\ devLeft' = devLeft - ChoiceCost(c)
       /\ gs' = choose_action(gs, c)
       /\ last' = ResolverOf(c)
  /\ pc' = NextStep(pc, gs')
  /\ UNCHANGED <<result, weeks_run, line>>

EarnedMediaTick ==
  /\ pc = "earned_media_tick"
  /\ gs' = earned_media_tick(gs)
  /\ last' = "earned_media_tick"
  /\ pc' = NextStep(pc, gs')
  /\ UNCHANGED <<result, weeks_run, line, devLeft>>

PaidMedia ==
  /\ pc = "paid_media"
  /\ gs' = paid_media(gs)
  /\ last' = "paid_media"
  /\ pc' = NextStep(pc, gs')
  /\ UNCHANGED <<result, weeks_run, line, devLeft>>

MaybeScandal ==
  /\ pc = "maybe_scandal"
  /\ \E r \in ScandalRolls :
       /\ ScandalCost(r) <= devLeft
       /\ devLeft' = devLeft - ScandalCost(r)
       /\ gs' = maybe_scandal(gs, r.hitYou, r.dmg, r.hitOpp, r.gain)
  /\ last' = "maybe_scandal"
  /\ pc' = NextStep(pc, gs')
  /\ UNCHANGED <<result, weeks_run, line>>

Debate ==
  /\ pc = "debate"
  /\ \E r \in DebateRolls :
       /\ DebateCost(r) <= devLeft
       /\ devLeft' = devLeft - DebateCost(r)
       /\ gs' = debate(gs, r.oppNoise, r.perfNoise, r.zingerRoll, r.backfireRoll)
  /\ last' = "debate"
  /\ pc' = NextStep(pc, gs')
  /\ UNCHANGED <<result, weeks_run, line>>

WeeklyDecay ==
  /\ pc = "weekly_decay"
  /\ gs' = weekly_decay(gs)
  /\ last' = "weekly_decay"
  /\ pc' = NextStep(pc, gs')
  /\ UNCHANGED <<result, weeks_run, line, devLeft>>

\* gs.week += 1, and run_week's test for the end of the phase
Advance ==
  /\ pc = "advance"
  /\ gs' = [gs EXCEPT !.week = @ + 1]
  /\ last' = "advance"
  /\ weeks_run' = weeks_run + 1
  /\ pc' = NextStep(pc, gs')
  /\ UNCHANGED <<result, line, devLeft>>

\* the primary test against 0.40
PrimaryLostLowBar(g) == overall_support(g.district, g.support_by_demo) < 40000000

\* the primary test with <= for <
PrimaryLostInclusive(g) == overall_support(g.district, g.support_by_demo) <= HALF

\* phase_transition, PRIMARY branch: the campaign is over iff overall < 0.50
PrimaryLost(g) == overall_support(g.district, g.support_by_demo) < HALF

\* the transition with the ledger carried over from the Primary
EnterGeneralKeepLedger(g, opp) ==
  [g EXCEPT !.phase = "GENERAL",
            !.week = 1,
            !.weeks_in_phase = GENERAL_WEEKS,
            !.opponent = opp,
            !.earned_media = 0,
            !.history = Append(@, Entry("New opponent", opp.skill, 0))]

\* the transition that also puts name_id and enthusiasm back to their defaults
EnterGeneralFresh(g, opp) ==
  [g EXCEPT !.phase = "GENERAL",
            !.week = 1,
            !.weeks_in_phase = GENERAL_WEEKS,
            !.opponent = opp,
            !.support_by_demo = initial_support_by_demo(g.district, g.you),
            !.earned_media = 0,
            !.name_id = 200,
            !.enthusiasm = 50,
            !.history = Append(@, Entry("New opponent", opp.skill, 0))]

\* the transition that also drops a pending debate prep
EnterGeneralUnprepared(g, opp) ==
  [g EXCEPT !.phase = "GENERAL",
            !.week = 1,
            !.weeks_in_phase = GENERAL_WEEKS,
            !.opponent = opp,
            !.support_by_demo = initial_support_by_demo(g.district, g.you),
            !.earned_media = 0,
            !.prepared = FALSE,
            !.history = Append(@, Entry("New opponent", opp.skill, 0))]

\* phase_transition, PRIMARY branch after the win
EnterGeneral(g, opp) ==
  [g EXCEPT !.phase = "GENERAL",
            !.week = 1,
            !.weeks_in_phase = GENERAL_WEEKS,
            !.opponent = opp,
            !.support_by_demo = initial_support_by_demo(g.district, g.you),
            !.earned_media = 0,
            !.history = Append(@, Entry("New opponent", opp.skill, 0))]

\* election day on which a win also takes a turnout of at least one half
ElectionResultByTurnout(g, turnoutNoise, finalNoise) ==
  LET turnout == rclamp(roll(g.district.turnout_base * 10 + (g.enthusiasm - 50), turnoutNoise),
                        350, 750)
      final   == rclamp(roll(overall_support(g.district, g.support_by_demo), finalNoise),
                        0, 2 * HALF)
  IN [outcome |-> IF final >= HALF /\ turnout >= 500 THEN "general_win" ELSE "general_loss",
      turnout |-> turnout, final |-> final]

\* phase_transition, election day: turnout (thousandths), final vote estimate
ElectionResult(g, turnoutNoise, finalNoise) ==
  LET turnout == rclamp(roll(g.district.turnout_base * 10 + (g.enthusiasm - 50), turnoutNoise),
                        350, 750)
      final   == rclamp(roll(overall_support(g.district, g.support_by_demo), finalNoise),
                        0, 2 * HALF)
  IN [outcome |-> IF final >= HALF THEN "general_win" ELSE "general_loss",
      turnout |-> turnout, final |-> final]

PrimaryLoss ==
  /\ pc = "phase_transition"
  /\ gs.phase = "PRIMARY"
  /\ PrimaryLost(gs)
  /\ result' = [NoResult EXCEPT !.outcome = "primary_loss"]
  /\ last' = "phase_transition"
  /\ pc' = "done"
  /\ UNCHANGED <<gs, weeks_run, line, devLeft>>

PrimaryWin ==
  /\ pc = "phase_transition"
  /\ gs.phase = "PRIMARY"
  /\ ~PrimaryLost(gs)
  /\ \E opp \in gen_opponent("GENERAL", NamePool) : gs' = EnterGeneral(gs, opp)
  /\ last' = "phase_transition"
  /\ pc' = "choose_action"
  /\ UNCHANGED <<result, weeks_run, line, devLeft>>

ElectionDay ==
  /\ pc = "phase_transition"
  /\ gs.phase # "PRIMARY"
  /\ \E tn \in TurnoutNoise, fn \in FinalNoise : result' = ElectionResult(gs, tn, fn)
  /\ last' = "phase_transition"
  /\ pc' = "done"
  /\ UNCHANGED <<gs, weeks_run, line, devLeft>>

Next ==
  \/ ChooseAction
  \/ EarnedMediaTick
  \/ PaidMedia
  \/ MaybeScandal
  \/ Debate
  \/ WeeklyDecay
  \/ Advance
  \/ PrimaryLoss
  \/ PrimaryWin
  \/ ElectionDay

Spec == Init /\ [][Next]_vars

\* a run that keeps to a streak: a grind or a surge, week after week
StreakInit ==
  /\ Start
  /\ line \in {GrindLine, SurgeLine}
  /\ devLeft = MaxStreakDeviations

StreakSpec == StreakInit /\ [][Next]_vars

\* the loop of main keeps running: the operator answers every prompt
FairSpec == StreakSpec /\ WF_vars(Next)

----------------------------------------------------------------------------
(* One resolver at a time, from constructed states                         *)

\* every field within its documented bounds, the boundary values included
UnitStates ==
  {[NewGame(d, c, o) EXCEPT
      !.you.cash = cash, !.you.momentum = m, !.you.fatigue = f, !.you.tone = tone,
      !.support_by_demo = [k \in DemoSet |-> sup],
      !.earned_media = em, !.enthusiasm = en, !.name_id = nid, !.prepared = prep,
      !.week = 3] :
     d \in Districts, c \in Candidates,
     o \in {x \in gen_opponent("PRIMARY", NamePool) : x.skill = 50},
     cash \in {0, 4, 5, 6, 8, 50}, m \in {-MOMENTUM_MAX, 0, MOMENTUM_MAX},
     f \in {0, FATIGUE_MAX}, tone \in {0, AXIS_MAX},
     sup \in {SUPPORT_LO, 500000, SUPPORT_HI}, em \in {0, EARNED_MEDIA_MAX},
     en \in {20, 90}, nid \in {0, 1000}, prep \in BOOLEAN}

Call(name, c, s, d) == [name |-> name, c |-> c, s |-> s, d |-> d]

\* the calls of run_week, each with the inputs and draws it can receive
Calls ==
  {Call(ResolverOf(c), c, QuietLine.scandal, QuietLine.debate) : c \in Choices}
  \cup {Call(n, QuietLine.choice, QuietLine.scandal, QuietLine.debate) :
          n \in {"earned_media_tick", "paid_media", "weekly_decay"}}
  \cup {Call("maybe_scandal", QuietLine.choice, s, QuietLine.debate) : s \in ScandalRolls}
  \cup {Call("debate", QuietLine.choice, QuietLine.scandal, d) : d \in DebateRolls}

RunCall(g, k) ==
  CASE k.name = "earned_media_tick" -> earned_media_tick(g)
    [] k.name = "paid_media"        -> paid_media(g)
    [] k.name = "weekly_decay"      -> weekly_decay(g)
    [] k.name = "maybe_scandal"     -> maybe_scandal(g, k.s.hitYou, k.s.dmg, k.s.hitOpp, k.s.gain)
    [] k.name = "debate"            -> debate(g, k.d.oppNoise, k.d.perfNoise, k.d.zingerRoll,
                                              k.d.backfireRoll)
    [] OTHER                        -> choose_action(g, k.c)

UnitInit ==
  /\ gs \in UnitStates
  /\ pc = "call"
  /\ last = "none"
  /\ result = NoResult
  /\ weeks_run = 0
  /\ line = QuietLine
  /\ devLeft = 0

UnitCall ==
  /\ pc = "call"
  /\ \E k \in Calls : gs' = RunCall(gs, k) /\ last' = k.name
  /\ pc' = "returned"
  /\ UNCHANGED <<result, weeks_run, line, devLeft>>

UnitSpec == UnitInit /\ [][UnitCall]_vars

----------------------------------------------------------------------------
(* One resolver at a time, over the whole range of cash, the call recorded *)

\* largest cash on hand tried
MaxCash == 45

\* gen_district outcomes: the two above and an "easy" district at the top of
\* its lean range whose random weights came out concentrated on one group
CallDistricts ==
  Districts \cup
  {[name |-> "TX-21 Hill Country", partisan_lean |-> 20, media_intensity |-> 85,
    volatility |-> 85, turnout_base |-> 60,
    demos |-> [working |-> 50, college |-> 10, rural |-> 10, urban |-> 10,
               seniors |-> 10, youth |-> 10]]}

CallStates ==
  {[NewGame(d, c, o) EXCEPT
      !.you.cash = cash, !.you.momentum = m, !.you.fatigue = f,
      !.support_by_demo = [k \in DemoSet |-> sup],
      !.earned_media = em, !.week = 3] :
     d \in CallDistricts, c \in Candidates,
     o \in {x \in gen_opponent("PRIMARY", NamePool) : x.skill = 50},
     cash \in 0..MaxCash, m \in {0, MOMENTUM_MAX}, f \in {0, FATIGUE_MAX},
     sup \in {SUPPORT_LO, 500000, SUPPORT_HI}, em \in {0, EARNED_MEDIA_MAX}}

ResolverInit ==
  /\ gs \in CallStates
  /\ pc = "call"
  /\ last = "none"
  /\ result = NoResult
  /\ weeks_run = 0
  /\ line = QuietLine
  /\ devLeft = 0

\* one call of a resolver; line keeps the inputs and draws the call received
ResolverCall ==
  /\ pc = "call"
  /\ \E k \in Calls :
       /\ gs' = RunCall(gs, k)
       /\ last' = k.name
       /\ line' = [name |-> k.name, choice |-> k.c, scandal |-> k.s, debate |-> k.d]
  /\ pc' = "returned"
  /\ UNCHANGED <<result, weeks_run, devLeft>>

ResolverSpec == ResolverInit /\ [][ResolverCall]_vars

----------------------------------------------------------------------------
(* The campaign with its inputs kept: line carries the state main started  *)
(* from and, step by step, the choice and the draws each step consumed     *)

\* budget of departures from the quiet line in a recorded run
MaxRecordedDeviations == 1

\* what one step consumes: the operator's choice, the scandal draws, the
\* debate draws, the opponent drawn at the transition, the election-day noise
Input(c, s, d, o, tn, fn) == [c |-> c, s |-> s, d |-> d, o |-> o, tn |-> tn, fn |-> fn]

NoOpponent == [name |-> "", archetype |-> "", skill |-> 0, scandal_risk |-> 0]

NoInput == Input(QuietLine.choice, QuietLine.scandal, QuietLine.debate, NoOpponent, 0, 0)

\* the inputs the step at position p can receive in state g
InputsAt(p, g) ==
  CASE p = "choose_action" -> {[NoInput EXCEPT !.c = c] : c \in Choices}
    [] p = "maybe_scandal" -> {[NoInput EXCEPT !.s = r] : r \in ScandalRolls}
    [] p = "debate"        -> {[NoInput EXCEPT !.d = r] : r \in DebateRolls}
    [] p = "phase_transition" ->
         IF g.phase = "PRIMARY"
         THEN (IF PrimaryLost(g) THEN {NoInput}
               ELSE {[NoInput EXCEPT !.o = o] : o \in gen_opponent("GENERAL", NamePool)})
         ELSE {[NoInput EXCEPT !.tn = tn, !.fn = fn] : tn \in TurnoutNoise, fn \in FinalNoise}
    [] OTHER -> {NoInput}

InputCost(p, in) ==
  CASE p = "choose_action" -> ChoiceCost(in.c)
    [] p = "maybe_scandal" -> ScandalCost(in.s)
    [] p = "debate"        -> DebateCost(in.d)
    [] OTHER               -> 0

\* the campaign state after the step at position p, run on g with input in
StepState(p, g, in) ==
  CASE p = "choose_action"     -> choose_action(g, in.c)
    [] p = "earned_media_tick" -> earned_media_tick(g)
    [] p = "paid_media"        -> paid_media(g)
    [] p = "maybe_scandal"     -> maybe_scandal(g, in.s.hitYou, in.s.dmg, in.s.hitOpp, in.s.gain)
    [] p = "debate"            -> debate(g, in.d.oppNoise, in.d.perfNoise, in.d.zingerRoll,
                                         in.d.backfireRoll)
    [] p = "weekly_decay"      -> weekly_decay(g)
    [] p = "advance"           -> [g EXCEPT !.week = @ + 1]
    [] p = "phase_transition"  -> IF g.phase = "PRIMARY" /\ ~PrimaryLost(g)
                                  THEN EnterGeneral(g, in.o) ELSE g
    [] OTHER                   -> g

\* the outcome the step leaves, r being the outcome before it
StepResult(p, g, in, r) ==
  IF p # "phase_transition" THEN r
  ELSE IF g.phase = "PRIMARY"
       THEN (IF PrimaryLost(g) THEN [NoResult EXCEPT !.outcome = "primary_loss"] ELSE r)
       ELSE ElectionResult(g, in.tn, in.fn)

\* the position after the step
StepPc(p, g, in) ==
  IF p = "phase_transition"
  THEN (IF g.phase = "PRIMARY" /\ ~PrimaryLost(g) THEN "choose_action" ELSE "done")
  ELSE NextStep(p, StepState(p, g, in))

RecordedInit ==
  /\ Start
  /\ line = [name |-> QuietLine.name, choice |-> QuietLine.choice,
             scandal |-> QuietLine.scandal, debate |-> QuietLine.debate,
             start |-> gs, tape |-> << >>]
  /\ devLeft = MaxRecordedDeviations

RecordedStep ==
  /\ pc # "done"
  /\ \E in \in InputsAt(pc, gs) :
       /\ InputCost(pc, in) <= devLeft
       /\ devLeft' = devLeft - InputCost(pc, in)
       /\ gs' = StepState(pc, gs, in)
       /\ result' = StepResult(pc, gs, in, result)
       /\ pc' = StepPc(pc, gs, in)
       /\ last' = IF pc = "choose_action" THEN ResolverOf(in.c) ELSE pc
       /\ line' = [line EXCEPT !.tape = Append(@, in)]
  /\ weeks_run' = IF pc = "advance" THEN weeks_run + 1 ELSE weeks_run

RecordedSpec == RecordedInit /\ [][RecordedStep]_vars

\* a second run: from state g at position p with outcome r, the inputs
\* tape[i], tape[i+1], ... fed in order
RECURSIVE Replay(_, _, _, _, _)
Replay(p, g, r, tape, i) ==
  IF i > Len(tape) THEN [gs |-> g, pc |-> p, result |-> r]
  ELSE Replay(StepPc(p, g, tape[i]), StepState(p, g, tape[i]),
              StepResult(p, g, tape[i], r), tape, i + 1)

----------------------------------------------------------------------------
(* overall_support as the interpreter computes it: binary floating point,  *)
(* every product and every partial sum rounded to nearest, ties to even,   *)
(* and a KeyError for a key a dict does not hold. The mantissa is kept     *)
(* short so that the values stay small; the rounding rule is the same.     *)

\* bits of mantissa
MantissaBits == 8

RECURSIVE Pow2(_)
Pow2(n) == IF n = 0 THEN 1 ELSE 2 * Pow2(n - 1)

RECURSIVE BitLength(_)
BitLength(n) == IF n = 0 THEN 0 ELSE 1 + BitLength(n \div 2)

\* the integer n rounded to MantissaBits significant bits
RoundToMantissa(n) ==
  IF BitLength(n) <= MantissaBits THEN n
  ELSE LET unit == Pow2(BitLength(n) - MantissaBits)
           q    == n \div unit
           r    == n % unit
           up   == 2 * r > unit \/ (2 * r = unit /\ q % 2 = 1)
       IN (IF up THEN q + 1 ELSE q) * unit

\* the float nearest to num/den, for 1/8 <= num/den < 1, in units of
\* 2^-(MantissaBits + 2)
FloatOf(num, den) ==
  RoundToMantissa((num * Pow2(MantissaBits + 10)) \div den) \div 256

\* sum(...) over DEMO_KEYS from position i on, acc the partial sum so far;
\* weights in eighths, supports as FloatOf gives them, the sum in units of
\* 2^-(MantissaBits + 5)
RECURSIVE FloatSum(_, _, _, _)
FloatSum(demos, support, i, acc) ==
  IF i > Len(DEMO_KEYS) THEN acc
  ELSE FloatSum(demos, support, i + 1,
                RoundToMantissa(acc + RoundToMantissa(demos[DEMO_KEYS[i]]
                                                      * support[DEMO_KEYS[i]])))

\* what a call of overall_support produces: a value, or the KeyError of the
\* first DEMO_KEYS entry missing from either dict
overall_support_float(demos, support) ==
  IF \E d \in DemoSet : d \notin DOMAIN demos \/ d \notin DOMAIN support
  THEN [outcome |-> "KeyError", turnout |-> 0, final |-> 0]
  ELSE [outcome |-> "value", turnout |-> 0, final |-> FloatSum(demos, support, 1, 0)]

RECURSIVE SumOver(_, _)
SumOver(f, keys) ==
  IF keys = {} THEN 0
  ELSE LET k == CHOOSE x \in keys : TRUE IN f[k] + SumOver(f, keys \ {k})

\* demographic weights in eighths that sum to 1: every split over the six
\* groups with at most a half in one group, and an even split over two groups
WeightInputs ==
  {w \in [DemoSet -> 0..4] : SumOver(w, DemoSet) = 8}
  \cup {[d \in {"working", "college"} |-> 4]}

\* ledgers: each group on the floor or on the ceiling, and the two-group
\* ledger 0.60 / 0.40
LedgerInputs ==
  [DemoSet -> {FloatOf(1, 5), FloatOf(4, 5)}]
  \cup {[d \in {"working", "college"} |->
           IF d = "working" THEN FloatOf(3, 5) ELSE FloatOf(2, 5)]}

OverallInit ==
  /\ \E w \in WeightInputs, l \in LedgerInputs, d \in Districts, c \in Candidates,
        o \in {x \in gen_opponent("PRIMARY", NamePool) : x.skill = 50} :
       /\ d.partisan_lean > 0
       /\ DOMAIN w = DOMAIN l
       /\ gs = [NewGame(d, c, o) EXCEPT !.district.demos = w, !.support_by_demo = l]
  /\ pc = "call"
  /\ last = "none"
  /\ result = NoResult
  /\ weeks_run = 0
  /\ line = QuietLine
  /\ devLeft = 0

\* one call of overall_support; result keeps what it produced
OverallCall ==
  /\ pc = "call"
  /\ result' = overall_support_float(gs.district.demos, gs.support_by_demo)
  /\ pc' = "returned"
  /\ last' = "overall_support"
  /\ UNCHANGED <<gs, weeks_run, line, devLeft>>

OverallSpec == OverallInit /\ [][OverallCall]_vars

----------------------------------------------------------------------------
(* Properties                                                              *)

SupportInRange(g) ==
  \A d \in DemoSet : SUPPORT_LO <= g.support_by_demo[d] /\ g.support_by_demo[d] <= SUPPORT_HI

CandidateInBounds(you) ==
  /\ you.cash >= 0
  /\ -MOMENTUM_MAX <= you.momentum /\ you.momentum <= MOMENTUM_MAX
  /\ 0 <= you.fatigue /\ you.fatigue <= FATIGUE_MAX
  /\ \A a \in AXES : 0 <= you[a] /\ you[a] <= AXIS_MAX

\* C1: in every state reachable from campaign start, whatever the operator
\* chooses and the dice give, and across the Primary->General transition,
\* each of the six per-demographic support values lies in [0.20, 0.80].
C1_SupportAlwaysInRange == SupportInRange(gs)

\* C1 witness: in the General, a scandal's shift was cut off at the floor.
C1_Witness ==
  /\ gs.phase = "GENERAL"
  /\ last = "maybe_scandal"
  /\ \A d \in DemoSet : gs.support_by_demo[d] = SUPPORT_LO

\* C2: started from any state whose candidate fields are within bounds, every
\* resolver returns with cash >= 0, momentum in [-10,10], fatigue in [0,10]
\* and every platform axis in [0,100].
C2_EachResolverReestablishesBounds == pc = "returned" => CandidateInBounds(gs.you)

\* C3: in every campaign run from the initial state through run_week,
\* at the end of each resolver call (the chosen action, each passive
\* resolver, the debate, weekly decay) momentum is in [-10,10], fatigue in
\* [0,10] and cash >= 0.
C3_CampaignKeepsCandidateBounds ==
  /\ gs.you.cash >= 0
  /\ -MOMENTUM_MAX <= gs.you.momentum /\ gs.you.momentum <= MOMENTUM_MAX
  /\ 0 <= gs.you.fatigue /\ gs.you.fatigue <= FATIGUE_MAX

\* C3 witness: the last General debate of a grind ends with momentum cut off
\* at -10 by the debate's clamp.
C3_Witness ==
  /\ last = "debate"
  /\ gs.phase = "GENERAL"
  /\ gs.week = GENERAL_WEEKS
  /\ gs.you.momentum = -MOMENTUM_MAX

Overall(g) == overall_support(g.district, g.support_by_demo)

Outcomes == {"primary_loss", "general_win", "general_loss"}

C4_Step ==
  /\ result.outcome = "none"
  /\ gs'.phase \in {"PRIMARY", "GENERAL"}
  /\ gs.phase = "GENERAL" => gs'.phase = "GENERAL"
  /\ gs.phase = "PRIMARY" /\ gs'.phase = "GENERAL" =>
       pc = "phase_transition" /\ Overall(gs) >= HALF
  /\ result'.outcome # "none" =>
       /\ pc = "phase_transition" /\ pc' = "done"
       /\ result'.outcome \in Outcomes
       /\ result'.outcome = "primary_loss" <=> gs.phase = "PRIMARY"

\* C4: the phase only progresses PRIMARY -> GENERAL -> terminal: it never
\* returns to PRIMARY, GENERAL is entered only from the end-of-Primary
\* evaluation with overall support >= 0.50, a terminal outcome comes only from
\* an end-of-phase evaluation (primary loss from PRIMARY, win or loss from
\* GENERAL), and no step is taken once an outcome is set.
C4_PhaseProgression == [][C4_Step]_vars

\* C4 witness: a campaign that went through both phases and ended.
C4_Witness == pc = "done" /\ gs.phase = "GENERAL" /\ result.outcome = "general_win"

C5_Step ==
  /\ result.outcome # "primary_loss"
  /\ pc = "phase_transition" /\ gs.phase = "PRIMARY" =>
       IF Overall(gs) < HALF
       THEN result'.outcome = "primary_loss" /\ pc' = "done" /\ gs' = gs
       ELSE gs'.phase = "GENERAL" /\ result' = result /\ pc' = "choose_action"

\* C5: when the last Primary week has finished with overall support < 0.50 the
\* campaign ends as a primary loss, the campaign state is left as it is and
\* nothing changes afterwards; with overall support >= 0.50, exactly 0.50
\* included, the campaign advances to GENERAL.
C5_PrimaryEvaluation == [][C5_Step]_vars

\* C5 witness: the General was entered from a Primary that ended on exactly 0.50.
C5_Witness ==
  /\ gs.phase = "GENERAL"
  /\ \E i \in 3..Len(gs.history) :
       /\ gs.history[i].kind = "New opponent"
       /\ gs.history[i - 2].kind = "Opponent stumbles"
       /\ gs.history[i - 2].val = HALF

\* C6: right after the Primary->General transition the ledger is
\* initial_support_by_demo of the district and of the candidate's platform as
\* it is then, whatever the ledger held at the end of the Primary.
C6_LedgerReinitialised ==
  [][gs.phase = "PRIMARY" /\ gs'.phase = "GENERAL" =>
       /\ gs'.you = gs.you /\ gs'.district = gs.district
       /\ gs'.support_by_demo = initial_support_by_demo(gs.district, gs.you)]_vars

\* C6 witness: just after the transition, with a platform shifted during the
\* Primary, so that the ledger is not the one the campaign started with.
C6_Witness ==
  /\ gs.phase = "GENERAL"
  /\ last = "phase_transition"
  /\ \E i \in DOMAIN gs.history : gs.history[i].kind = "Policy shift"
  /\ \A c \in Candidates : gs.support_by_demo # initial_support_by_demo(gs.district, c)

\* C7: right after the Primary->General transition week = 1,
\* weeks_in_phase = 8, earned_media = 0, the opponent comes from the General
\* table (skill 62, 65 or 68, above every Primary opponent's skill) and
\* exactly one history entry, naming the new opponent, was appended.
C7_TransitionResets ==
  [][gs.phase = "PRIMARY" /\ gs'.phase = "GENERAL" =>
       /\ gs'.week = 1
       /\ gs'.weeks_in_phase = 8
       /\ gs'.earned_media = 0
       /\ gs'.opponent.skill \in {62, 65, 68}
       /\ gs'.opponent.skill > gs.opponent.skill
       /\ \A o \in gen_opponent("PRIMARY", NamePool) : gs'.opponent.skill > o.skill
       /\ gs'.history = Append(gs.history, Entry("New opponent", gs'.opponent.skill, 0))]_vars

\* C7 witness: just after a transition that followed a Primary zinger, whose
\* earned media was still lingering.
C7_Witness ==
  /\ gs.phase = "GENERAL"
  /\ last = "phase_transition"
  /\ gs.week = 1 /\ gs.earned_media = 0
  /\ \E i \in DOMAIN gs.history : gs.history[i].kind = "You land a zinger"

\* prep_debate has run since the last debate, or since the start
PrepSinceLastDebate(h) ==
  \E i \in DOMAIN h :
    /\ h[i].kind = "Debate prep"
    /\ \A j \in DOMAIN h : j > i => h[j].kind # "[DEBUG] debate"

C8_Step ==
  pc = "debate" =>
    /\ gs'.prepared = FALSE
    /\ Len(gs'.history) > Len(gs.history)
    /\ gs'.history[Len(gs.history) + 1].kind = "[DEBUG] debate"
    /\ gs'.history[Len(gs.history) + 1].val =
         BasePower(gs) + (IF PrepSinceLastDebate(gs.history) THEN 60000 ELSE 0)

\* C8: prepared is false after every run of the debate, whatever the band or
\* the zinger; the +6 prep bonus enters you_power iff prep_debate ran after
\* the previous debate (or since the start), so a second debate with no prep
\* in between gets no bonus.
C8_PrepConsumed == [][C8_Step]_vars

\* C8 witness: a prepared debate, then a later debate without the bonus.
C8_Witness ==
  /\ last = "debate"
  /\ \E i, j \in DOMAIN gs.history :
       /\ i < j
       /\ gs.history[i].kind = "[DEBUG] debate" /\ gs.history[i].aux = 1
       /\ gs.history[j].kind = "[DEBUG] debate" /\ gs.history[j].aux = 0

ActionResolvers == {"fundraise", "canvass", "adjust_policy", "prep_debate", "rest", "polling"}

Scheduled(g) ==
  (g.phase = "PRIMARY" /\ g.week \in {3, 5}) \/ (g.phase = "GENERAL" /\ g.week \in {3, 6, 8})

C9_Step ==
  /\ pc = "choose_action"     => pc' = "earned_media_tick" /\ last' \in ActionResolvers
  /\ pc = "earned_media_tick" => pc' = "paid_media" /\ last' = "earned_media_tick"
  /\ pc = "paid_media"        => pc' = "maybe_scandal" /\ last' = "paid_media"
  /\ pc = "maybe_scandal"     => /\ last' = "maybe_scandal"
                                 /\ pc' = IF Scheduled(gs) THEN "debate" ELSE "weekly_decay"
  /\ pc = "debate"            => Scheduled(gs) /\ pc' = "weekly_decay" /\ last' = "debate"
  /\ pc = "weekly_decay"      => pc' = "advance" /\ last' = "weekly_decay"
  /\ pc = "advance"           => /\ gs'.week = gs.week + 1
                                 /\ pc' \in {"choose_action", "phase_transition"}
  /\ pc # "advance" /\ pc # "phase_transition" => gs'.week = gs.week /\ gs'.phase = gs.phase
  /\ pc' = "phase_transition" => pc = "advance"
  /\ last' \in ActionResolvers => pc = "choose_action"

\* C9: within every week the steps run in this order, each at most once: one
\* operator-chosen action resolver, the earned-media tick, paid media, the
\* scandal check, the debate only if the week is scheduled, weekly decay, the
\* week increment, and only then a phase-transition evaluation.
C9_WeekOrder == [][C9_Step]_vars

\* C9 witness: the end of Primary week 5, whose earned-media tick, ads,
\* scandal check and debate have all left their entries.
C9_Witness ==
  /\ pc = "advance" /\ gs.phase = "PRIMARY" /\ gs.week = 5
  /\ \E i, j, k \in DOMAIN gs.history :
       /\ i < j /\ j < k
       /\ gs.history[i].kind = "Earned media effect"
       /\ gs.history[j].kind = "Opponent stumbles"
       /\ gs.history[k].kind = "[DEBUG] debate"

C10_Weeks ==
  /\ pc = "done" =>
       \/ result.outcome = "primary_loss" /\ weeks_run = 6
       \/ result.outcome \in {"general_win", "general_loss"} /\ weeks_run = 14
  /\ pc = "choose_action" =>
       /\ 1 <= gs.week /\ gs.week <= gs.weeks_in_phase
       /\ gs.weeks_in_phase = 6 <=> gs.phase = "PRIMARY"
       /\ gs.weeks_in_phase = 8 <=> gs.phase = "GENERAL"

\* C10: every campaign terminates: the run ends after exactly 6 resolved weeks
\* (primary loss) or exactly 14 (6 Primary + 8 General), and at the start of
\* every week 1 <= week <= weeks_in_phase, with weeks_in_phase = 6 exactly in
\* PRIMARY and 8 exactly in GENERAL.
C10_Terminates == <>(pc = "done") /\ []C10_Weeks

\* C10 witness: a campaign that ended after its fourteenth week.
C10_Witness == pc = "done" /\ weeks_run = 14 /\ gs.week = 9

\* the candidate and the ledger are the same in g and h, and h's history is
\* g's history with n entries appended
SameButLogged(g, h, n) ==
  /\ h.you = g.you
  /\ h.support_by_demo = g.support_by_demo
  /\ Len(h.history) = Len(g.history) + n
  /\ SubSeq(h.history, 1, Len(g.history)) = g.history

C11_Step ==
  pc = "call" /\ last' = "adjust_policy" /\ line'.choice.arg \notin AXES =>
    /\ SameButLogged(gs, gs', 1)
    /\ \A a \in AxisInputs \ AXES, d \in {1, -1} :
         SameButLogged(gs, adjust_policy(gs', a, d), 2)

C12_Step ==
  pc = "call" /\ last' = "paid_media" =>
    LET spent == gs.you.cash - gs'.you.cash
    IN /\ spent = 0 \/ (3 <= spent /\ spent <= 20)
       /\ 2 * spent <= gs.you.cash
       /\ spent > 0 => gs'.you.cash >= 5
       /\ spent = 0 => /\ gs'.support_by_demo = gs.support_by_demo
                       /\ gs'.history = gs.history
       /\ gs.you.cash = 4 => spent = 0

\* C12: paid media, for every integer cash >= 0: the amount spent is 0 or lies
\* in [3, 20], never exceeds half of the cash on hand, leaves at least 5
\* whenever something is spent, and when nothing is spent (cash = 4 among
\* others) cash, ledger and history stay as they were.
C12_PaidMediaSpend == [][C12_Step]_vars

\* C12 witness: the hard cap at work, 20 spent out of the largest cash tried.
C12_Witness ==
  /\ pc = "returned" /\ last = "paid_media"
  /\ gs.you.cash = MaxCash - 20
  /\ gs.history[Len(gs.history)].kind = "Ads run"
  /\ gs.history[Len(gs.history)].val = 20

\* h is g with `cost` taken from cash and one history entry appended, and
\* nothing else touched
OnlyChargedAndLogged(g, h, cost) ==
  /\ h = [g EXCEPT !.you.cash = @ - cost, !.history = h.history]
  /\ Len(h.history) = Len(g.history) + 1
  /\ SubSeq(h.history, 1, Len(g.history)) = g.history

PollingFrame(g, h) == OnlyChargedAndLogged(g, h, IF g.you.cash < 6 THEN 0 ELSE 6)

\* the entries the operator-chosen resolvers close with, one per call
ActionKinds ==
  {"Fundraising (corporate)", "Fundraising (grassroots)", "Fundraising (mixed)",
   "Tried to canvass, too broke", "Canvassing cost", "Policy team is confused",
   "You lean sharper", "You lean more hopeful", "Policy shift", "Debate prep",
   "You rest", "Polling: can't afford", "Polling conducted"}

RECURSIVE CountKinds(_, _)
CountKinds(h, kinds) ==
  IF h = << >> THEN 0
  ELSE (IF Head(h).kind \in kinds THEN 1 ELSE 0) + CountKinds(Tail(h), kinds)

C13_Step ==
  pc = "choose_action" /\ last' = "polling" =>
    /\ PollingFrame(gs, gs')
    /\ pc' = "earned_media_tick"

C13_Weeks ==
  pc = "choose_action" =>
    /\ CountKinds(gs.history, ActionKinds) = weeks_run
    /\ \A cash \in 0..MaxCash :
         PollingFrame([gs EXCEPT !.you.cash = cash], polling([gs EXCEPT !.you.cash = cash]))

\* C13: polling with cash < 6 changes nothing but the history, by one entry,
\* and the week is consumed all the same (the passive resolvers, decay and
\* the week increment follow, so every week that ends has had exactly one
\* action, a refused poll included); with cash >= 6 it takes exactly 6 from
\* cash and changes nothing else apart from its history entry.
C13_Polling == [][C13_Step]_vars /\ []C13_Weeks

\* C13 witness: a later week begins after a poll that could not be paid for.
C13_Witness ==
  /\ pc = "choose_action" /\ gs.you.cash < 6
  /\ weeks_run > 0
  /\ gs.history[Len(gs.history)].kind # "Polling: can't afford"
  /\ \E i \in DOMAIN gs.history : gs.history[i].kind = "Polling: can't afford"

C14_Step ==
  pc = "call" /\ last' = "canvass" /\ gs.you.cash < 8 =>
    /\ gs'.you = gs.you
    /\ gs'.name_id = gs.name_id
    /\ gs'.enthusiasm = gs.enthusiasm
    /\ Len(gs'.history) = Len(gs.history) + 2
    /\ Overall(gs') <= Overall(gs)

\* C14: canvassing with cash < 8 does not refuse the turn: cash, name_id,
\* enthusiasm, momentum and fatigue stay as they were and overall support
\* after the call is not higher than before it, in every district the
\* generator can produce.
C14_BrokeCanvassNeverGains == [][C14_Step]_vars

\* the reasons apply_support_shift is called with
SummaryKinds ==
  {"Ground game fizzles", "Canvassing + field", "Minor scandal hits you",
   "Opponent stumbles", "Earned media tailwind", "Paid media",
   "You dominated the debate.", "You won the debate.", "It was a wash.",
   "You lost the debate.", "You faceplanted on stage."}

\* the entries h's history has beyond g's
Appended(g, h) == SubSeq(h.history, Len(g.history) + 1, Len(h.history))

\* how many times the call recorded in k, made in state g, reaches
\* apply_support_shift
ShiftCalls(g, k) ==
  CASE k.name = "canvass"           -> 1
    [] k.name = "debate"            -> 1
    [] k.name = "maybe_scandal"     -> (IF k.scandal.hitYou THEN 1 ELSE 0)
                                       + (IF k.scandal.hitOpp THEN 1 ELSE 0)
    [] k.name = "earned_media_tick" -> IF g.earned_media > 0 THEN 1 ELSE 0
    [] k.name = "paid_media"        -> IF g.you.cash >= 5 /\ PaidSpend(g.you.cash) >= 3
                                       THEN 1 ELSE 0
    [] OTHER                        -> 0

C15_Step ==
  pc = "call" =>
    /\ last' \in {"fundraise", "adjust_policy", "prep_debate", "rest", "polling",
                  "weekly_decay"}
         => gs'.support_by_demo = gs.support_by_demo
    /\ CountKinds(Appended(gs, gs'), SummaryKinds) = ShiftCalls(gs, line')
    /\ gs'.support_by_demo # gs.support_by_demo => ShiftCalls(gs, line') > 0

\* C15: within a phase support_by_demo changes only inside
\* apply_support_shift: fundraise, adjust_policy (known or unknown axis),
\* prep_debate, rest, polling and weekly_decay leave every support value as it
\* was, and each call of apply_support_shift appends exactly one summary
\* entry to the history.
C15_SupportChangesOnlyByShift == [][C15_Step]_vars

\* C15 witness: a scandal week that hit both sides, two shifts and two
\* summary entries.
C15_Witness ==
  /\ pc = "returned" /\ last = "maybe_scandal"
  /\ line.scandal.hitYou /\ line.scandal.hitOpp
  /\ CountKinds(gs.history, SummaryKinds) = 2
  /\ \E d \in DemoSet : gs.support_by_demo[d] \notin {SUPPORT_LO, 500000, SUPPORT_HI}

\* C16: overall_support is a convex combination: for six non-negative weights
\* that sum to 1 and six supports in [0.20, 0.80] the value returned lies in
\* [0.20, 0.80], hence overall support is in that range in every state.
C16_OverallIsConvex ==
  pc = "returned" /\ DOMAIN gs.district.demos = DemoSet
                  /\ SumOver(gs.district.demos, DemoSet) = 8 =>
    /\ result.outcome = "value"
    /\ 8 * FloatOf(1, 5) <= result.final
    /\ result.final <= 8 * FloatOf(4, 5)

\* C17: overall_support takes a district and a ledger that hold only some of
\* the demographic keys: for demos {working: 0.5, college: 0.5} and supports
\* {working: 0.60, college: 0.40} it returns exactly 0.50.
C17_SubsetOfKeys ==
  pc = "returned" /\ DOMAIN gs.district.demos = {"working", "college"} =>
    /\ result.outcome = "value"
    /\ result.final = 8 * FloatOf(1, 2)

C19_Step ==
  /\ pc = "maybe_scandal" =>
       /\ pc' = "debate" <=> gs.week \in get_debate_weeks(gs.phase, gs.weeks_in_phase)
       /\ pc' = "debate" <=> next_debate_info(gs).text = "THIS WEEK"
  /\ last' = "debate" =>
       /\ pc = "debate"
       /\ gs.week \in (IF gs.phase = "PRIMARY" THEN {3, 5} ELSE {3, 6, 8})

C19_Counts ==
  /\ pc = "choose_action" =>
       (next_debate_info(gs).text = "THIS WEEK"
          <=> gs.week \in (IF gs.phase = "PRIMARY" THEN {3, 5} ELSE {3, 6, 8}))
  /\ pc = "phase_transition" =>
       CountKinds(gs.history, {"[DEBUG] debate"}) = (IF gs.phase = "PRIMARY" THEN 2 ELSE 5)

\* C19: the debate runs in a week iff the week is in
\* get_debate_weeks(phase, weeks_in_phase), weeks 3 and 5 of the Primary and
\* 3, 6 and 8 of the General, so a completed Primary has had exactly 2 debates
\* and a completed General exactly 3 more, and next_debate_info says
\* THIS WEEK exactly in the weeks whose run_week runs a debate.
C19_DebateSchedule == [][C19_Step]_vars /\ []C19_Counts

\* C19 witness: the General is over and the history holds all five debates.
C19_Witness ==
  /\ pc = "phase_transition" /\ gs.phase = "GENERAL"
  /\ CountKinds(gs.history, {"[DEBUG] debate"}) = 5

\* the five bands as intervals of perf: lo < perf <= hi, the outer ends beyond
\* any performance the powers can give, with the deltas of each
Bands ==
  <<[headline |-> "You faceplanted on stage.", lo |-> -10000000, hi |-> -180000,
     delta |-> -20000, momentum |-> -13000],
    [headline |-> "You lost the debate.", lo |-> -180000, hi |-> -60000,
     delta |-> -10000, momentum |-> -7000],
    [headline |-> "It was a wash.", lo |-> -60000, hi |-> 60000,
     delta |-> 0, momentum |-> 1000],
    [headline |-> "You won the debate.", lo |-> 60000, hi |-> 180000,
     delta |-> 10000, momentum |-> 7000],
    [headline |-> "You dominated the debate.", lo |-> 180000, hi |-> 10000000,
     delta |-> 20000, momentum |-> 13000]>>

BandsOf(perf) == {i \in DOMAIN Bands : Bands[i].lo < perf /\ perf <= Bands[i].hi}

\* performances around every threshold and at both ends of the scale
PerfGrid ==
  {t + e : t \in {-180000, -80000, -60000, 60000, 180000}, e \in {-1, 0, 1}}
    \cup {-9999999, 0, 9999999}

C20_Step ==
  pc = "call" /\ last' = "debate" =>
    LET r     == line'.debate
        perf  == Perf(gs, r.oppNoise, r.perfNoise)
        delta == DebateDelta(perf, r.zingerRoll, r.backfireRoll)
        entry == gs'.history[Len(gs'.history)]
    IN /\ \A q \in PerfGrid \cup {perf} :
            /\ Cardinality(BandsOf(q)) = 1
            /\ \A i \in BandsOf(q) :
                 /\ Band(q).headline = Bands[i].headline
                 /\ Band(q).delta = Bands[i].delta
                 /\ Band(q).momentum = Bands[i].momentum
            /\ q <= perf => /\ Band(q).delta <= Band(perf).delta
                            /\ Band(q).momentum <= Band(perf).momentum
            /\ q >= perf => /\ Band(q).delta >= Band(perf).delta
                            /\ Band(q).momentum >= Band(perf).momentum
            /\ \A z, b \in BOOLEAN :
                 -26000 <= DebateDelta(q, z, b) /\ DebateDelta(q, z, b) <= 28000
       /\ entry.kind = Band(perf).headline
       /\ gs'.you.momentum
            = rclamp(gs.you.momentum + Band(perf).momentum, -MOMENTUM_MAX, MOMENTUM_MAX)
       /\ -26000 <= delta /\ delta <= 28000
       /\ gs'.support_by_demo = ShiftedSupport(gs, delta, ZINGER_WEIGHTS)

\* C20: every perf value falls in exactly one of the five bands (dominate
\* above 18, win above 6, wash above -6, lose above -18, faceplant otherwise),
\* the bands' support deltas (+0.020, +0.010, 0, -0.010, -0.020) and momentum
\* deltas (+1.3, +0.7, +0.1, -0.7, -1.3) are non-decreasing in perf, and the
\* combined delta debate passes to apply_support_shift lies in
\* [-0.026, +0.028].
C20_DebateClassification == [][C20_Step]_vars

\* C20 witness: a dominated debate with a zinger that landed, the largest
\* combined delta, which moved the ledger.
C20_Witness ==
  /\ pc = "returned" /\ last = "debate"
  /\ line.debate.zingerRoll /\ ~line.debate.backfireRoll
  /\ gs.history[Len(gs.history)].kind = "You dominated the debate."
  /\ \E i \in DOMAIN gs.history : gs.history[i].kind = "You land a zinger"
  /\ \E d \in DemoSet : gs.support_by_demo[d] \notin {SUPPORT_LO, 500000, SUPPORT_HI}

\* the two entries a zinger logs
ZingerKinds == {"Your zinger goes viral but mean", "You land a zinger"}

C21_Step ==
  pc = "call" /\ last' = "debate" =>
    LET r         == line'.debate
        perf      == Perf(gs, r.oppNoise, r.perfNoise)
        fired     == CountKinds(Appended(gs, gs'), ZingerKinds) > 0
        backfired == CountKinds(Appended(gs, gs'), {"Your zinger goes viral but mean"}) > 0
        headline  == gs'.history[Len(gs'.history)].kind
    IN /\ fired => perf > -80000 /\ r.zingerRoll
       /\ fired => headline # "You faceplanted on stage."
       /\ perf <= -180000 => ~fired /\ headline = "You faceplanted on stage."
       /\ ~fired => /\ gs'.earned_media = gs.earned_media
                    /\ gs'.enthusiasm = gs.enthusiasm
       /\ backfired => fired /\ r.backfireRoll /\ gs'.enthusiasm <= gs.enthusiasm
       /\ fired /\ ~backfired => gs'.enthusiasm >= gs.enthusiasm
       /\ fired => /\ gs'.earned_media >= gs.earned_media
                   /\ CountKinds(Appended(gs, gs'), ZingerKinds) = 1
       /\ 0 <= gs'.earned_media /\ gs'.earned_media <= 7000

\* C21: in a debate a zinger fires only when perf > -8, so never in the
\* faceplant band; the debate changes earned_media and enthusiasm only when a
\* zinger fires; a backfire happens only when a zinger fired; and once the
\* virality is added earned_media is at most 0.70.
C21_ZingerGated == [][C21_Step]_vars

\* C21 witness: a lost debate (perf between -8 and -6) whose zinger backfired
\* with earned media already at its cap.
C21_Witness ==
  /\ pc = "returned" /\ last = "debate"
  /\ gs.history[Len(gs.history)].kind = "You lost the debate."
  /\ CountKinds(gs.history, {"Your zinger goes viral but mean"}) = 1
  /\ gs.earned_media = 7000
  /\ gs.enthusiasm = 47

C23_Step ==
  /\ pc # "done"
  /\ pc = "phase_transition" /\ gs.phase = "GENERAL" =>
       /\ gs.week = GENERAL_WEEKS + 1
       /\ pc' = "done" /\ gs' = gs /\ weeks_run' = weeks_run
       /\ result'.outcome \in {"general_win", "general_loss"}
       /\ result'.outcome = "general_win" <=> result'.final >= 50000000
       /\ \E n \in FinalNoise :
            result'.final = Max2(0, Min2(100000000, Overall(gs) + n))
       /\ 350 <= result'.turnout /\ result'.turnout <= 750
       /\ \A tn \in TurnoutNoise, fn \in FinalNoise, tb \in {35, 75}, en \in {20, 90} :
            ElectionResult([gs EXCEPT !.district.turnout_base = tb, !.enthusiasm = en],
                           tn, fn).outcome
              = (IF Max2(0, Min2(100000000, Overall(gs) + fn)) >= 50000000
                 THEN "general_win" ELSE "general_loss")
  /\ result'.outcome \in {"general_win", "general_loss"} =>
       pc = "phase_transition" /\ gs.phase = "GENERAL"

\* C23: at the end of the last General week the campaign ends with a win iff
\* the final vote estimate (overall support plus noise, clamped to [0,1]) is
\* at least 0.50, otherwise with a loss; turnout is clamped to [0.35,0.75] and
\* has no influence on the outcome; no further week is run and no state
\* changes afterwards.
C23_ElectionDay == [][C23_Step]_vars

\* C23 witness: an election won on a turnout cut off at its floor of 0.35.
C23_Witness ==
  /\ pc = "done" /\ result.outcome = "general_win"
  /\ result.turnout = 350
  /\ weeks_run = PRIMARY_WEEKS + GENERAL_WEEKS

TRAITS == {"charisma", "discipline", "empathy", "stamina"}

SameTraits(g, h) == \A t \in TRAITS : h.you[t] = g.you[t]

C24_Step ==
  /\ gs'.district = gs.district
  /\ SameTraits(gs, gs')
  /\ gs'.opponent # gs.opponent =>
       /\ pc = "phase_transition" /\ last' = "phase_transition"
       /\ gs.phase = "PRIMARY" /\ gs'.phase = "GENERAL"
  /\ last' \in ActionResolvers \cup {"earned_media_tick", "paid_media", "maybe_scandal",
                                      "debate", "weekly_decay"}
       => gs'.opponent = gs.opponent
  /\ pc = "choose_action" =>
       \A t \in TRAITS, d \in {1, -1} :
         LET h == adjust_policy(gs, t, d)
         IN SameTraits(gs, h) /\ h.opponent = gs.opponent /\ h.district = gs.district

\* C24: the opponent record changes only at the Primary->General transition,
\* and the district record and the candidate's four trait stats (charisma,
\* discipline, empathy, stamina) never change: every action resolver, passive
\* resolver, the debate and weekly decay leave all three unchanged.
C24_FixedRecords == [][C24_Step]_vars

\* C24 witness: election day after a campaign with a policy shift; the
\* opponent is a General one, district and traits are those the campaign
\* started with.
C24_Witness ==
  /\ pc = "done" /\ gs.phase = "GENERAL"
  /\ gs.opponent \in gen_opponent("GENERAL", NamePool)
  /\ gs.district \in Districts
  /\ \E c \in Candidates : SameTraits([you |-> c], gs)
  /\ \E i \in DOMAIN gs.history : gs.history[i].kind = "Policy shift"

\* h is g after one policy shift of axis a in direction d
PolicyShifted(g, h, a, d) ==
  /\ h.you[a] = Max2(0, Min2(100, g.you[a] + 8 * d))
  /\ \A b \in AXES \ {a} : h.you[b] = g.you[b]
  /\ h.you.cash = g.you.cash
  /\ h.support_by_demo = g.support_by_demo
  /\ h.you.momentum = g.you.momentum + 1500
  /\ h.you.fatigue = Min2(100, g.you.fatigue + 8)
  /\ Len(h.history) = Len(g.history) + 1
  /\ SubSeq(h.history, 1, Len(g.history)) = g.history

C25_Step ==
  pc = "call" /\ last' = "adjust_policy" /\ line'.choice.arg \in AXES =>
    LET a == line'.choice.arg
        d == line'.choice.dir
        later == weekly_decay(gs')
        again == adjust_policy(later, a, d)
    IN /\ d \in {1, -1}
       /\ PolicyShifted(gs, gs', a, d)
       /\ PolicyShifted(later, again, a, d)
       /\ later.you[a] \in {0, 100} /\ later.you[a] + 8 * d \notin 0..100 =>
            /\ again.you[a] = later.you[a]
            /\ again.you.momentum = later.you.momentum + 1500
            /\ again.you.fatigue = Min2(100, later.you.fatigue + 8)

\* C25: a policy shift on a valid axis with direction d in {+1,-1} sets the
\* axis to clamp(old + 8 d, 0, 100), leaves the other three axes, cash and the
\* support ledger unchanged, adds 0.15 to momentum and 0.8 to fatigue (fatigue
\* capped at 10) and appends exactly one history entry; a shift at a bound
\* leaves the axis unchanged and still costs the momentum and the fatigue.
C25_PolicyShift == [][C25_Step]_vars

\* C25 witness: tone pushed up from 96 is cut off at 100, so that the same
\* shift a week later is a shift at the bound.
C25_Witness ==
  /\ pc = "returned" /\ last = "adjust_policy"
  /\ line.choice.arg = "tone" /\ line.choice.dir = 1
  /\ gs.you.tone = 100
  /\ gs.you.fatigue = FATIGUE_MAX
  /\ adjust_policy(weekly_decay(gs), "tone", 1).you.tone = 100
  /\ adjust_policy(weekly_decay(gs), "tone", 1).you.fatigue = FATIGUE_MAX

\* partisan_lean * 0.010 * weight of the demographic, millionths
Pull(g, d) == g.district.partisan_lean * g.district.demos[d]

\* the delta term of a shift: delta * amp * w, millionths
DeltaTerm(g, delta, w, d) == MulDiv(MulDiv(delta, Amp(g.district), 10000), w.num[d], w.den)

\* h's ledger is g's after one shift of delta under weights w, pull included
ShiftedWithPull(g, h, delta, w) ==
  \A d \in DemoSet :
    h.support_by_demo[d]
      = Max2(200000, Min2(800000, g.support_by_demo[d] + DeltaTerm(g, delta, w, d) + Pull(g, d)))

\* a zero-delta shift moves no demographic against the district's lean
NeverAgainstLean(g, h) ==
  \A d \in DemoSet :
    /\ g.district.partisan_lean > 0 => h.support_by_demo[d] >= g.support_by_demo[d]
    /\ g.district.partisan_lean < 0 => h.support_by_demo[d] <= g.support_by_demo[d]

\* demo_weights that leave out all but one key: demo_weights.get(d, 0.0) is 0
SingleKeyWeights(k) == [num |-> [d \in DemoSet |-> IF d = k THEN 1 ELSE 0], den |-> 1]

C26_Step ==
  pc = "call" =>
    /\ last' = "debate" =>
         LET r     == line'.debate
             delta == DebateDelta(Perf(gs, r.oppNoise, r.perfNoise), r.zingerRoll,
                                  r.backfireRoll)
         IN /\ ShiftedWithPull(gs, gs', delta, ZINGER_WEIGHTS)
            /\ delta = 0 =>
                 /\ NeverAgainstLean(gs, gs')
                 /\ \A k \in DemoSet, e \in {-3000, 0, 8000} :
                      LET h == apply_support_shift(gs, e, "shift", SingleKeyWeights(k))
                      IN /\ ShiftedWithPull(gs, h, e, SingleKeyWeights(k))
                         /\ \A d \in DemoSet \ {k} :
                              h.support_by_demo[d]
                                = Max2(200000, Min2(800000, gs.support_by_demo[d] + Pull(gs, d)))
                         /\ e = 0 => NeverAgainstLean(gs, h)
    /\ last' = "canvass" /\ gs.you.cash < 8 =>
         ShiftedWithPull(gs, gs', -3000, UNIFORM_WEIGHTS)
    /\ last' = "maybe_scandal" /\ line'.scandal.hitYou /\ ~line'.scandal.hitOpp =>
         ShiftedWithPull(gs, gs', -line'.scandal.dmg, UNIFORM_WEIGHTS)
    /\ last' = "maybe_scandal" /\ ~line'.scandal.hitYou /\ line'.scandal.hitOpp =>
         ShiftedWithPull(gs, gs', line'.scandal.gain, UNIFORM_WEIGHTS)

C27_Step ==
  /\ gs.prepared /\ ~gs'.prepared => pc = "debate" /\ last' = "debate"
  /\ ~gs.prepared /\ gs'.prepared => pc = "choose_action" /\ last' = "prep_debate"
  /\ last' = "prep_debate" => gs'.prepared
  /\ pc = "phase_transition" => gs'.prepared = gs.prepared
  /\ pc = "debate" =>
       /\ gs.prepared <=> PrepSinceLastDebate(gs.history)
       /\ gs'.history[Len(gs.history) + 1].val
            = BasePower(gs) + (IF gs.prepared THEN 60000 ELSE 0)
       /\ gs'.history[Len(gs.history) + 1].aux = (IF gs.prepared THEN 1 ELSE 0)

\* C27: once prep_debate has set prepared, the flag stays set through any
\* number of weeks and any other actions until the next debate runs, and the
\* Primary->General transition does not clear it: a prep done in Primary
\* week 6, after the last Primary debate, gives the prep bonus in the first
\* General debate.
C27_PrepOutlastsTransition == [][C27_Step]_vars

\* C27 witness: the first General debate has just run with the bonus of a
\* prep logged before the new opponent was named and after both Primary
\* debates.
C27_Witness ==
  /\ gs.phase = "GENERAL" /\ gs.week = 3 /\ last = "debate"
  /\ \E i, j, k \in DOMAIN gs.history :
       /\ i < j /\ j < k
       /\ gs.history[i].kind = "Debate prep"
       /\ CountKinds(SubSeq(gs.history, 1, i), {"[DEBUG] debate"}) = 2
       /\ gs.history[j].kind = "New opponent"
       /\ gs.history[k].kind = "[DEBUG] debate" /\ gs.history[k].aux = 1

C28_Step ==
  gs.phase = "PRIMARY" /\ gs'.phase = "GENERAL" =>
    /\ pc = "phase_transition"
    /\ gs'.you = gs.you
    /\ gs'.name_id = gs.name_id
    /\ gs'.enthusiasm = gs.enthusiasm
    /\ gs'.district = gs.district
    /\ Len(gs'.history) = Len(gs.history) + 1
    /\ SubSeq(gs'.history, 1, Len(gs.history)) = gs.history
    /\ gs' = [gs EXCEPT !.phase = gs'.phase, !.week = gs'.week,
                        !.weeks_in_phase = gs'.weeks_in_phase,
                        !.opponent = gs'.opponent,
                        !.support_by_demo = gs'.support_by_demo,
                        !.earned_media = gs'.earned_media,
                        !.history = gs'.history]

\* C28: the Primary->General transition leaves the candidate (cash,
\* momentum, fatigue, the four platform axes, the traits), name_id,
\* enthusiasm and the district unchanged and keeps the earlier history as a
\* prefix of the history; only phase, week, weeks_in_phase, opponent,
\* support_by_demo, earned_media and the one appended history entry differ.
C28_TransitionFrame == [][C28_Step]_vars

\* C28 witness: just after the transition of a campaign that canvassed in
\* the Primary: cash, name_id, enthusiasm and momentum are not the values the
\* campaign started with.
C28_Witness ==
  /\ gs.phase = "GENERAL" /\ last = "phase_transition"
  /\ gs.name_id = 215
  /\ gs.you.cash < 50
  /\ gs.enthusiasm # 50
  /\ gs.you.momentum # 0

====
